---- MODULE Spec2Model ----
(***************************************************************************)
(* Model of the iMessage retrieval tools get_messages_impl and             *)
(* find_chat_impl (src/src/imessage_mcp/tools) over a read-only chat.db    *)
(* store and an external contact directory.                                *)
(*                                                                         *)
(* Strings are TLA+ strings (Len, SubSeq and \o work on them in TLC).      *)
(* Python None / SQL NULL is the sentinel None for text values and 0 for   *)
(* row ids; no input of the model takes the sentinel as a real value.      *)
(* Store timestamps are nanoseconds since 2001-01-01; they exceed the      *)
(* integers TLC can hold, so a timestamp is the pair <<seconds, nanos>>    *)
(* with exact arithmetic on the two limbs.                                 *)
(***************************************************************************)
EXTENDS Integers, Sequences, FiniteSets, TLC

VARIABLES
    chat,               \* table chat: rows [ROWID, guid, display_name], in the order
                        \* a scan without ORDER BY returns them
    chat_handle_join,   \* chat ROWID -> sequence of handle ROWIDs (join order)
    message,            \* table message joined with chat_message_join: sequence of rows
    directory,          \* external contact directory: handle string -> name or None
    PYOBJC_AVAILABLE,   \* contacts.py module flag, fixed at import
    request,            \* the call being served, NoRequest when idle
    response,           \* the value the call returned, NoResponse when idle
    conn_calls,         \* number of get_db_connection calls made by the call
    open_conns,         \* connections the call opened and has not released
    resolver_lookup,    \* the _lookup of the ContactResolver at hand, NoLookup
                        \* while it is None
    build_calls,        \* number of build_contact_lookup runs of the process
    tool_call           \* the arguments of the server entry point the call came
                        \* through, NoToolCall for a direct call

vars == <<chat, chat_handle_join, message, directory, PYOBJC_AVAILABLE,
          request, response, conn_calls, open_conns, resolver_lookup, build_calls,
          tool_call>>

store_vars == <<chat, chat_handle_join, message, directory, PYOBJC_AVAILABLE>>

None == "<None>"

NoRequest == [op |-> "idle"]

NoResponse == [idle |-> TRUE]

NoToolCall == [tool |-> "none"]

NoLookup == [none |-> TRUE]

-----------------------------------------------------------------------------
(* Bounds of the model *)

MaxLimit == 2

MaxParticipants == 3

MaxExtraMessages == 2

MaxReactions == 2

-----------------------------------------------------------------------------
(* Python string primitives *)

Digits == {"0", "1", "2", "3", "4", "5", "6", "7", "8", "9"}

Truthy(s) == s # None /\ s # ""

StartsWith(s, p) == Len(s) >= Len(p) /\ SubSeq(s, 1, Len(p)) = p

EndsWith(s, p) == Len(s) >= Len(p) /\ SubSeq(s, Len(s) - Len(p) + 1, Len(s)) = p

Contains(s, sub) ==
    \E i \in 1..(Len(s) - Len(sub) + 1) : SubSeq(s, i, i + Len(sub) - 1) = sub

UpperChars == "ABCDEFGHIJKLMNOPQRSTUVWXYZ"

LowerChars == "abcdefghijklmnopqrstuvwxyz"

LowerChar(c) ==
    IF \E i \in 1..26 : SubSeq(UpperChars, i, i) = c
    THEN LET i == CHOOSE j \in 1..26 : SubSeq(UpperChars, j, j) = c
         IN  SubSeq(LowerChars, i, i)
    ELSE c

IsLetter(c) == Contains(LowerChars, c) \/ Contains(UpperChars, c)

RECURSIVE Lower(_)
Lower(s) == IF s = "" THEN "" ELSE LowerChar(Head(s)) \o Lower(Tail(s))

RECURSIVE LStrip(_)
LStrip(s) == IF s # "" /\ Head(s) = " " THEN LStrip(Tail(s)) ELSE s

RECURSIVE RStrip(_)
RStrip(s) ==
    IF s # "" /\ SubSeq(s, Len(s), Len(s)) = " "
    THEN RStrip(SubSeq(s, 1, Len(s) - 1))
    ELSE s

Strip(s) == LStrip(RStrip(s))

\* str.split()[0]: the first whitespace-separated word; "" stands for the
\* IndexError raised when the string holds no word.
WordIn(t) ==
    IF t = "" THEN ""
    ELSE IF \A i \in 1..Len(t) : SubSeq(t, i, i) # " " THEN t
    ELSE SubSeq(t, 1, (CHOOSE i \in 1..Len(t) :
                          /\ SubSeq(t, i, i) = " "
                          /\ \A j \in 1..(i - 1) : SubSeq(t, j, j) # " ") - 1)

FirstWord(s) == WordIn(LStrip(s))

DigitVal(c) == CHOOSE n \in 0..9 : ToString(n) = c

IsDigits(s) == s # "" /\ \A i \in 1..Len(s) : SubSeq(s, i, i) \in Digits

RECURSIVE DigitsVal(_)
DigitsVal(s) ==
    IF s = "" THEN 0
    ELSE 10 * DigitsVal(SubSeq(s, 1, Len(s) - 1)) + DigitVal(SubSeq(s, Len(s), Len(s)))

\* int(s): [ok, val]; ok = FALSE stands for ValueError.  Optional sign then
\* decimal digits (surrounding blanks and "_" separators are not in the
\* model's inputs).
ParseSigned(negative, body) ==
    IF IsDigits(body)
    THEN [ok |-> TRUE, val |-> IF negative THEN 0 - DigitsVal(body) ELSE DigitsVal(body)]
    ELSE [ok |-> FALSE, val |-> 0]

ParseInt(s) ==
    IF s # "" /\ Head(s) \in {"+", "-"}
    THEN ParseSigned(Head(s) = "-", Tail(s))
    ELSE ParseSigned(FALSE, s)

\* SQL "x LIKE '%pat%'": substring match, case-insensitive on ASCII letters
\* (the model's patterns hold no "%" or "_").
Like(x, pat) == x # None /\ Contains(Lower(x), Lower(pat))

-----------------------------------------------------------------------------
(* Store timestamps: <<seconds, nanoseconds>> since 2001-01-01 *)

\* TWENTY_FOUR_HOURS_NS = 24 * 60 * 60 * 1_000_000_000 nanoseconds
TWENTY_FOUR_HOURS_NS == <<24 * 60 * 60, 0>>

DateAdd(a, b) ==
    LET n == a[2] + b[2]
    IN  <<a[1] + b[1] + (n \div 1000000000), n % 1000000000>>

DateLt(a, b) == a[1] < b[1] \/ (a[1] = b[1] /\ a[2] < b[2])

DateLe(a, b) == a = b \/ DateLt(a, b)

-----------------------------------------------------------------------------
(* The stores the model runs on: the fixture of tests/conftest.py and      *)
(* families of variations of it.                                           *)

\* table handle: ROWID -> id
handle ==
    <<"+19175551234", "+15625559876", "test@example.com", "+14155550100",
      "other@example.com">>

HandleIdOf(rowid) == IF rowid \in 1..Len(handle) THEN handle[rowid] ELSE None

Chat1 == [ROWID |-> 1, guid |-> "iMessage;+;chat123", display_name |-> None]

Chat2 == [ROWID |-> 2, guid |-> "iMessage;+;chat456", display_name |-> "Test Group"]

Chat123 == [ROWID |-> 123, guid |-> "SMS;-;+15625559876", display_name |-> None]

Msg(rowid, text, handle_id, date, is_from_me, atype, aguid, chat_id) ==
    [ROWID |-> rowid, guid |-> "msg" \o ToString(rowid), text |-> text,
     handle_id |-> handle_id, date |-> date, is_from_me |-> is_from_me,
     associated_message_type |-> atype, associated_message_guid |-> aguid,
     chat_id |-> chat_id]

D0 == <<789200000, 0>>

OneNano == <<0, 1>>

BaseJoin == (1 :> <<1>>) @@ (2 :> <<1, 2>>) @@ (123 :> <<2>>)

BaseMessages ==
    << Msg(1, "Hello world", 1, <<789100000, 0>>, 0, 0, None, 1),
       Msg(2, "How are you?", 0, <<789100100, 0>>, 1, 0, None, 1),
       Msg(3, None, 1, <<789100200, 0>>, 0, 2000, "msg2", 1),
       Msg(4, "Hello group", 2, <<789100300, 0>>, 0, 0, None, 2) >>

EmptyDirectory == [h \in {} |-> None]

\* renumber a sequence of rows so that ROWID (and guid) follow the position
Renumber(rows) ==
    [i \in 1..Len(rows) |->
        [rows[i] EXCEPT !.ROWID = i, !.guid = "msg" \o ToString(i)]]

RECURSIVE SeqsUpTo(_, _)
SeqsUpTo(S, n) ==
    IF n = 0 THEN {<<>>}
    ELSE LET shorter == SeqsUpTo(S, n - 1)
         IN  shorter \cup {Append(q, x) : q \in {r \in shorter : Len(r) = n - 1}, x \in S}

\* 1. chats and the availability of the contact directory
BaseStores ==
    {[chat |-> cs, chat_handle_join |-> BaseJoin, message |-> BaseMessages,
      directory |-> d, pyobjc |-> av] :
        cs \in {<<Chat1, Chat2>>, <<Chat1, Chat2, Chat123>>, <<Chat123, Chat2, Chat1>>},
        d \in {EmptyDirectory, (handle[1] :> "Al Smith")},
        av \in BOOLEAN}

\* 2. participants of chat 1 and their directory names
NameChoices == {None, "Al Smith", "Al2 Jones", "Me Too", "Unknown1 Doe"}

PeopleStores ==
    {[chat |-> <<Chat1, Chat2>>,
      chat_handle_join |-> (1 :> [i \in 1..Len(names) |-> i]) @@ BaseJoin,
      message |-> BaseMessages,
      directory |-> [h \in {handle[i] : i \in {j \in 1..Len(names) : names[j] # None}} |->
                        names[CHOOSE i \in 1..Len(names) : handle[i] = h]],
      pyobjc |-> TRUE] :
        names \in SeqsUpTo(NameChoices, MaxParticipants)}

\* 3. a question of the local user at D0 and the rows around its 24h window
Question == Msg(1, "Can you help me with this?", 0, D0, 1, 0, None, 1)

ExtraKinds ==
    { Msg(0, "Sure", 1, D0, 0, 0, None, 1),
      Msg(0, "Sure", 1, DateAdd(D0, OneNano), 0, 0, None, 1),
      Msg(0, "Sure", 1, DateAdd(D0, TWENTY_FOUR_HOURS_NS), 0, 0, None, 1),
      Msg(0, "Sure", 1, DateAdd(DateAdd(D0, TWENTY_FOUR_HOURS_NS), OneNano), 0, 0, None, 1),
      Msg(0, None, 1, DateAdd(D0, OneNano), 0, 2000, "msg1", 1),
      Msg(0, "On my way", 0, DateAdd(D0, OneNano), 1, 0, None, 1),
      Msg(0, "Still there?", 0, DateAdd(DateAdd(D0, TWENTY_FOUR_HOURS_NS), TWENTY_FOUR_HOURS_NS), 1, 0, None, 1),
      Msg(0, "Sure", 1, DateAdd(D0, OneNano), 0, 0, None, 2) }

UnansweredStores ==
    {[chat |-> <<Chat1, Chat2>>, chat_handle_join |-> BaseJoin,
      message |-> Renumber(<<Question>> \o extra),
      directory |-> EmptyDirectory, pyobjc |-> FALSE] :
        extra \in SeqsUpTo(ExtraKinds, MaxExtraMessages)}

\* 4. reactions on a message of chat 1, from participants and from others
ReactionKinds ==
    { Msg(0, None, 0, <<789100400, 0>>, 1, 2000, "msg1", 1),
      Msg(0, None, 1, <<789100400, 0>>, 0, 2001, "msg1", 1),
      Msg(0, None, 3, <<789100400, 0>>, 0, 2000, "msg1", 1),
      Msg(0, None, 1, <<789100400, 0>>, 0, 3000, "msg1", 1),
      Msg(0, None, 1, <<789100400, 0>>, 0, 4000, "msg1", 1) }

ReactionStores ==
    {[chat |-> <<Chat1, Chat2>>, chat_handle_join |-> BaseJoin,
      message |-> Renumber(<< Msg(1, "Hello world", 1, <<789100000, 0>>, 0, 0, None, 1),
                              Msg(2, "Hi all", 2, <<789100100, 0>>, 0, 0, None, 1) >> \o rs),
      directory |-> (handle[1] :> "Al Smith"), pyobjc |-> av] :
        rs \in SeqsUpTo(ReactionKinds, MaxReactions), av \in BOOLEAN}

Stores == BaseStores \cup PeopleStores \cup UnansweredStores \cup ReactionStores

-----------------------------------------------------------------------------
(* phone.py, models.py, parsing.py, db.py, queries.py: not part of the     *)
(* sources at hand, modelled from their documented contracts.              *)

RECURSIVE OnlyDigits(_)
OnlyDigits(s) ==
    IF s = "" THEN ""
    ELSE (IF Head(s) \in Digits THEN Head(s) ELSE "") \o OnlyDigits(Tail(s))

\* normalize_to_e164(raw) -> handle or None
PhoneToE164(raw, d) ==
    IF StartsWith(raw, "+") /\ Len(d) >= 7 THEN "+" \o d
    ELSE IF Len(d) = 10 THEN "+1" \o d
    ELSE IF Len(d) = 11 /\ Head(d) = "1" THEN "+" \o d
    ELSE None

NormalizeToE164(raw) ==
    IF ~Truthy(raw) THEN None
    ELSE IF Contains(raw, "@") THEN Lower(raw)
    ELSE IF \E i \in 1..Len(raw) : IsLetter(SubSeq(raw, i, i)) THEN None
    ELSE PhoneToE164(raw, OnlyDigits(raw))

\* format_phone_display(handle) -> readable form of a handle
FormatPhoneDisplay(h) ==
    IF StartsWith(h, "+1") /\ Len(h) = 12 /\ IsDigits(Tail(h))
    THEN "(" \o SubSeq(h, 3, 5) \o ") " \o SubSeq(h, 6, 8) \o "-" \o SubSeq(h, 9, 12)
    ELSE h

\* generate_display_name(participants): one participant: the name or the
\* formatted handle; several: up to 3 first names joined by commas, then
\* "+ N more"
FirstNameOf(p) ==
    IF Truthy(p.name) THEN FirstWord(p.name) ELSE FormatPhoneDisplay(p.handle)

RECURSIVE JoinFirstNames(_, _)
JoinFirstNames(ps, n) ==
    IF n = 1 THEN FirstNameOf(ps[1])
    ELSE JoinFirstNames(ps, n - 1) \o ", " \o FirstNameOf(ps[n])

GenerateDisplayName(ps) ==
    IF Len(ps) = 0 THEN "Unknown"
    ELSE IF Len(ps) = 1
    THEN (IF Truthy(ps[1].name) THEN ps[1].name ELSE FormatPhoneDisplay(ps[1].handle))
    ELSE IF Len(ps) <= 3 THEN JoinFirstNames(ps, Len(ps))
    ELSE JoinFirstNames(ps, 3) \o " + " \o ToString(Len(ps) - 3) \o " more"

\* get_message_text(text, attributedBody): the plain text when present; the
\* rows of the model carry no serialized payload
GetMessageText(text, attributedBody) == IF text # None THEN text ELSE None

\* get_reaction_type(code) -> kind or None
ReactionNames == <<"loved", "liked", "disliked", "laughed", "emphasized", "questioned">>

GetReactionType(code) ==
    IF code \in 2000..2005 THEN ReactionNames[code - 1999]
    ELSE IF code \in 3000..3005 THEN "removed_" \o ReactionNames[code - 2999]
    ELSE None

\* reaction_to_emoji(kind): fixed table (emoji written as ASCII stand-ins)
ReactionToEmoji(kind) ==
    CASE kind = "loved" -> "<3"
      [] kind = "liked" -> "+1"
      [] kind = "disliked" -> "-1"
      [] kind = "laughed" -> ":D"
      [] kind = "emphasized" -> "!!"
      [] kind = "questioned" -> "??"
      [] OTHER -> "?"

\* paths get_db_connection is called with
DbPaths == {"chat.db", "/nonexistent/path/chat.db"}

\* get_db_connection(db_path) raises FileNotFoundError when no file is there
DbExists(db_path) == db_path = "chat.db"

ChatRows == {chat[i] : i \in 1..Len(chat)}

MessageRows == {message[i] : i \in 1..Len(message)}

-----------------------------------------------------------------------------
(* contacts.py *)

\* build_contact_lookup(): {} without PyObjC, else the directory's entries
build_contact_lookup == IF ~PYOBJC_AVAILABLE THEN EmptyDirectory ELSE directory

resolve_normalized_folds_any_handle(h, normalized, lookup) ==
    IF Truthy(normalized) /\ normalized \in DOMAIN lookup THEN lookup[normalized]
    ELSE IF Lower(h) \in DOMAIN lookup THEN lookup[Lower(h)]
    ELSE None

\* resolve_handle(handle, lookup)
resolve_normalized(h, normalized, lookup) ==
    IF Truthy(normalized) /\ normalized \in DOMAIN lookup THEN lookup[normalized]
    ELSE IF Contains(h, "@") /\ Lower(h) \in DOMAIN lookup THEN lookup[Lower(h)]
    ELSE None

resolve_handle(h, lookup) ==
    IF ~Truthy(h) THEN None
    ELSE IF h \in DOMAIN lookup THEN lookup[h]
    ELSE resolve_normalized(h, NormalizeToE164(h), lookup)

\* ContactResolver().resolve(handle) on a fresh resolver (_lookup is None):
\* initialize() leaves _lookup None when the directory is unavailable
ContactResolver_resolve(h) ==
    IF ~PYOBJC_AVAILABLE THEN None ELSE resolve_handle(h, build_contact_lookup)

\* get_chat_participants(conn, chat_id, resolver): the chat's handles in
\* join order, each with its resolved name
ParticipantRows(hs) ==
    [i \in 1..Len(hs) |->
        [handle |-> handle[hs[i]], name |-> ContactResolver_resolve(handle[hs[i]])]]

get_chat_participants(chat_id) ==
    IF chat_id \in DOMAIN chat_handle_join
    THEN ParticipantRows(chat_handle_join[chat_id])
    ELSE <<>>

-----------------------------------------------------------------------------
(* queries.py (modelled from the documented contracts) *)

\* the row of a message as the queries return it
MessageRow(m) ==
    [id |-> m.ROWID, guid |-> m.guid, text |-> m.text, date |-> m.date,
     is_from_me |-> m.is_from_me, sender_handle |-> HandleIdOf(m.handle_id)]

\* most recent first, ties broken by row id
Newer(a, b) == DateLt(b.date, a.date) \/ (a.date = b.date /\ a.ROWID > b.ROWID)

RECURSIVE SortNewestFirst(_)
SortNewestFirst(S) ==
    IF S = {} THEN <<>>
    ELSE SortNewestFirst({a \in S : \E b \in S : Newer(a, b)})
         \o <<CHOOSE a \in S : \A b \in S \ {a} : Newer(b, a)>>

\* SQL LIMIT n: a negative n means no limit
SqlLimit(rows, n) == IF n < 0 \/ n >= Len(rows) THEN rows ELSE SubSeq(rows, 1, n)

\* the rows of a chat that pass the filters of a request, reactions excluded
MatchingMessages(chat_id, since_apple, before_apple, from_handle, from_me_only, contains) ==
    {m \in MessageRows :
        /\ m.chat_id = chat_id
        /\ m.associated_message_type = 0
        /\ (since_apple # None => DateLe(since_apple, m.date))
        /\ (before_apple # None => DateLe(m.date, before_apple))
        /\ (Truthy(from_handle) => HandleIdOf(m.handle_id) = from_handle)
        /\ (from_me_only => m.is_from_me = 1)
        /\ (Truthy(contains) => Like(m.text, contains))}

\* get_messages_for_chat(conn, chat_id, limit, since_apple, before_apple,
\*                       from_handle, from_me_only, contains)
RowsOf(ms) == [i \in 1..Len(ms) |-> MessageRow(ms[i])]

get_messages_for_chat(chat_id, limit, since_apple, before_apple, from_handle, from_me_only, contains) ==
    SqlLimit(RowsOf(SortNewestFirst(MatchingMessages(chat_id, since_apple, before_apple,
                                                     from_handle, from_me_only, contains))),
             limit)

\* get_reactions_for_messages(conn, guids): target guid -> the reaction rows
\* on it, [type, from_handle], in row order
RECURSIVE ReactionsOn(_, _)
ReactionsOn(guid, n) ==
    IF n = 0 THEN <<>>
    ELSE ReactionsOn(guid, n - 1) \o
         (IF message[n].associated_message_type # 0
             /\ message[n].associated_message_guid = guid
          THEN <<[type |-> message[n].associated_message_type,
                  from_handle |-> HandleIdOf(message[n].handle_id)]>>
          ELSE <<>>)

get_reactions_for_messages(guids) ==
    [g \in {x \in guids : ReactionsOn(x, Len(message)) # <<>>} |->
        ReactionsOn(g, Len(message))]

-----------------------------------------------------------------------------
(* tools/get_messages.py *)

question_endings ==
    <<"what do you think", "let me know", "thoughts", "can you", "could you",
      "would you", "will you", "please", "lmk">>

\* _looks_like_question(text)
looks_like_question(text) ==
    IF ~Truthy(text) THEN FALSE
    ELSE IF Contains(text, "?") THEN TRUE
    ELSE \E i \in 1..Len(question_endings) :
            EndsWith(Strip(Lower(text)), question_endings[i])

has_reply_before_24h(chat_id, message_date) ==
    \E m \in MessageRows :
        /\ m.chat_id = chat_id
        /\ DateLt(message_date, m.date)
        /\ DateLt(m.date, DateAdd(message_date, TWENTY_FOUR_HOURS_NS))
        /\ m.is_from_me = 0
        /\ m.associated_message_type = 0

\* _has_reply_within_24h(conn, chat_id, message_date)
has_reply_within_24h(chat_id, message_date) ==
    \E m \in MessageRows :
        /\ m.chat_id = chat_id
        /\ DateLt(message_date, m.date)
        /\ DateLe(m.date, DateAdd(message_date, TWENTY_FOUR_HOURS_NS))
        /\ m.is_from_me = 0
        /\ m.associated_message_type = 0

\* optional list arguments: None or a list
NoList == [given |-> FALSE, items |-> <<>>]

ListOf(items) == [given |-> TRUE, items |-> items]

TruthyList(l) == l.given /\ Len(l.items) > 0

NoChat == [found |-> FALSE, id |-> 0]

\* chat_id -> numeric_chat_id: "chat<int>" is taken as a row id, anything
\* else is looked up by GUID and the first row of the scan is taken
ChatByGuid(chat_id) ==
    IF \A i \in 1..Len(chat) : ~Like(chat[i].guid, chat_id) THEN NoChat
    ELSE [found |-> TRUE,
          id |-> chat[CHOOSE i \in 1..Len(chat) :
                         /\ Like(chat[i].guid, chat_id)
                         /\ \A j \in 1..(i - 1) : ~Like(chat[j].guid, chat_id)].ROWID]

ChatByRowId(chat_id, parsed) ==
    IF parsed.ok THEN [found |-> TRUE, id |-> parsed.val] ELSE ChatByGuid(chat_id)

ResolveChatId(chat_id) ==
    IF ~Truthy(chat_id) THEN NoChat
    ELSE IF StartsWith(chat_id, "chat")
    THEN ChatByRowId(chat_id, ParseInt(SubSeq(chat_id, 5, Len(chat_id))))
    ELSE ChatByGuid(chat_id)

\* people[key] = value; handle_to_key[handle] = key
AddPerson(st, key, value, p_handle, unknown_count) ==
    [people |-> (key :> value) @@ st.people,
     handle_to_key |-> (p_handle :> key) @@ st.handle_to_key,
     unknown_count |-> unknown_count]

\* the key of a named participant: the lowered first name, with the index
\* appended when that key is taken
PersonKey(people, first, i) ==
    IF first \in DOMAIN people THEN first \o ToString(i) ELSE first

PeopleStep_no_collision_check(st, p, i) ==
    IF Truthy(p.name)
    THEN AddPerson(st, Lower(FirstWord(p.name)), p.name, p.handle, st.unknown_count)
    ELSE AddPerson(st, "unknown" \o ToString(st.unknown_count + 1),
                   FormatPhoneDisplay(p.handle), p.handle, st.unknown_count + 1)

\* one turn of the loop that builds the people map; i is the 0-based index
PeopleStep(st, p, i) ==
    IF Truthy(p.name)
    THEN AddPerson(st, PersonKey(st.people, Lower(FirstWord(p.name)), i),
                   p.name, p.handle, st.unknown_count)
    ELSE AddPerson(st, "unknown" \o ToString(st.unknown_count + 1),
                   FormatPhoneDisplay(p.handle), p.handle, st.unknown_count + 1)

RECURSIVE BuildPeople(_, _)
BuildPeople(participant_rows, n) ==
    IF n = 0
    THEN [people |-> ("me" :> "Me"), handle_to_key |-> [h \in {} |-> None],
          unknown_count |-> 0]
    ELSE PeopleStep(BuildPeople(participant_rows, n - 1), participant_rows[n], n - 1)

\* from_person -> sender filter; raised: the call to the resolver's name
\* search failed (ContactResolver defines no search_by_name)
SenderByHandle_searches_without_directory(e164) ==
    IF ~Truthy(e164)
    THEN [from_handle |-> None, from_me_only |-> FALSE, raised |-> TRUE]
    ELSE [from_handle |-> e164, from_me_only |-> FALSE, raised |-> FALSE]

SenderByHandle(e164) ==
    IF ~Truthy(e164) /\ PYOBJC_AVAILABLE
    THEN [from_handle |-> None, from_me_only |-> FALSE, raised |-> TRUE]
    ELSE [from_handle |-> e164, from_me_only |-> FALSE, raised |-> FALSE]

ResolveSender_keeps_from_person(unanswered, from_person) ==
    IF ~Truthy(from_person)
    THEN [from_handle |-> None, from_me_only |-> unanswered, raised |-> FALSE]
    ELSE IF Lower(from_person) = "me"
    THEN [from_handle |-> None, from_me_only |-> TRUE, raised |-> FALSE]
    ELSE [from_handle |-> NormalizeToE164(from_person), from_me_only |-> unanswered,
          raised |-> FALSE]

ResolveSender(unanswered, from_person) ==
    IF unanswered
    THEN [from_handle |-> None, from_me_only |-> TRUE, raised |-> FALSE]
    ELSE IF ~Truthy(from_person)
    THEN [from_handle |-> None, from_me_only |-> FALSE, raised |-> FALSE]
    ELSE IF Lower(from_person) = "me"
    THEN [from_handle |-> None, from_me_only |-> TRUE, raised |-> FALSE]
    ELSE SenderByHandle(NormalizeToE164(from_person))

\* a candidate of the unanswered filter is kept when it looks like a
\* question and has no reply within 24 hours
IsUnanswered(chat_id, row) ==
    /\ looks_like_question(GetMessageText(row.text, None))
    /\ ~has_reply_within_24h(chat_id, row.date)

\* the loop over the candidates; it stops once limit rows are kept
RECURSIVE FilterUnanswered(_, _, _, _, _)
FilterUnanswered(chat_id, rows, i, kept, limit) ==
    IF i > Len(rows) THEN kept
    ELSE IF IsUnanswered(chat_id, rows[i])
    THEN IF Len(kept) + 1 >= limit
         THEN Append(kept, rows[i])
         ELSE FilterUnanswered(chat_id, rows, i + 1, Append(kept, rows[i]), limit)
    ELSE FilterUnanswered(chat_id, rows, i + 1, kept, limit)

\* the sender reference of a message row, NoFrom when the row has no sender
SenderOf(row, handle_to_key) ==
    IF row.is_from_me # 0 THEN ("from" :> "me")
    ELSE IF Truthy(row.sender_handle)
    THEN ("from" :> (IF row.sender_handle \in DOMAIN handle_to_key
                     THEN handle_to_key[row.sender_handle]
                     ELSE row.sender_handle))
    ELSE [k \in {} |-> None]

ReactionShown_keeps_removed(r) == Truthy(GetReactionType(r.type))

\* is a reaction row rendered?
ReactionShown(r) ==
    /\ Truthy(GetReactionType(r.type))
    /\ ~StartsWith(GetReactionType(r.type), "removed")

\* the "<emoji> <senderKey>" strings of the reaction rows rs[1..n]
RECURSIVE RenderReactions(_, _, _)
ReactionFromKey(r, handle_to_key) ==
    IF Truthy(r.from_handle)
    THEN (IF r.from_handle \in DOMAIN handle_to_key
          THEN handle_to_key[r.from_handle]
          ELSE "unknown")
    ELSE "me"

RenderReactions(rs, n, handle_to_key) ==
    IF n = 0 THEN <<>>
    ELSE RenderReactions(rs, n - 1, handle_to_key) \o
         (IF ReactionShown(rs[n])
          THEN <<ReactionToEmoji(GetReactionType(rs[n].type)) \o " "
                 \o ReactionFromKey(rs[n], handle_to_key)>>
          ELSE <<>>)

\* the "reactions" field of a message, absent when nothing is rendered
ReactionsField(reactions) ==
    IF reactions # <<>> THEN ("reactions" :> reactions) ELSE [k \in {} |-> None]

ReactionsOf(row, include_reactions, reactions_map, handle_to_key) ==
    IF include_reactions /\ row.guid \in DOMAIN reactions_map
    THEN ReactionsField(RenderReactions(reactions_map[row.guid],
                                        Len(reactions_map[row.guid]), handle_to_key))
    ELSE ReactionsField(<<>>)

\* one message of the response
BuildMessage(row, include_reactions, reactions_map, handle_to_key) ==
    [id |-> "msg_" \o ToString(row.id), text |-> GetMessageText(row.text, None)]
        @@ SenderOf(row, handle_to_key)
        @@ ReactionsOf(row, include_reactions, reactions_map, handle_to_key)

\* the "more" flag of get_messages
MoreMessages(messages, limit) == Len(messages) = limit

ErrorResult(kind, text) == [error |-> kind, message |-> text]

\* an exception that leaves the with block, with str(e)
Raised(text) == [raised |-> text]

IsRaised(r) == "raised" \in DOMAIN r

\* the response of a successful call
MessagesResponse(req, chat_row, participant_rows, people, messages) ==
    [chat |-> [id |-> "chat" \o ToString(chat_row.ROWID),
               name |-> IF Truthy(chat_row.display_name)
                        THEN chat_row.display_name
                        ELSE GenerateDisplayName(participant_rows)],
     people |-> people,
     messages |-> messages,
     more |-> MoreMessages(messages, req.limit),
     cursor |-> None]

\* the loop that builds the response's messages
BuildMessages(message_rows, include_reactions, reactions_map, handle_to_key) ==
    [i \in 1..Len(message_rows) |->
        BuildMessage(message_rows[i], include_reactions, reactions_map, handle_to_key)]

\* reactions are fetched for the kept rows when they are asked for
ReactionsMap(include_reactions, message_rows) ==
    IF include_reactions /\ message_rows # <<>>
    THEN get_reactions_for_messages({message_rows[i].guid : i \in 1..Len(message_rows)})
    ELSE [g \in {} |-> <<>>]

\* get_messages_impl from the kept message rows on
get_messages_respond(req, chat_row, participant_rows, built, message_rows) ==
    MessagesResponse(req, chat_row, participant_rows, built.people,
                     BuildMessages(message_rows, req.include_reactions,
                                   ReactionsMap(req.include_reactions, message_rows),
                                   built.handle_to_key))

\* the unanswered filter over the fetched rows
KeptRows(req, numeric_chat_id, fetched) ==
    IF req.unanswered
    THEN FilterUnanswered(numeric_chat_id, fetched, 1, <<>>, req.limit)
    ELSE fetched

\* get_messages_impl from the sender filter on
get_messages_fetch(req, chat_row, participant_rows, sender) ==
    IF sender.raised
    THEN Raised("'ContactResolver' object has no attribute 'search_by_name'")
    ELSE get_messages_respond(
            req, chat_row, participant_rows,
            BuildPeople(participant_rows, Len(participant_rows)),
            KeptRows(req, chat_row.ROWID,
                     get_messages_for_chat(
                        chat_row.ROWID,
                        IF req.unanswered THEN req.limit * 3 ELSE req.limit,
                        None, None, sender.from_handle, sender.from_me_only,
                        req.contains)))

\* get_messages_impl from the resolved chat on
get_messages_in_chat(req, resolved) ==
    IF ~resolved.found \/ \A c \in ChatRows : c.ROWID # resolved.id
    THEN ErrorResult("chat_not_found", "Chat not found: " \o req.chat_id)
    ELSE get_messages_fetch(req, CHOOSE c \in ChatRows : c.ROWID = resolved.id,
                            get_chat_participants(resolved.id),
                            ResolveSender(req.unanswered, req.from_person))

\* get_messages_impl, from the open connection on
get_messages_body(req) == get_messages_in_chat(req, ResolveChatId(req.chat_id))

\* a call's outcome when it holds no connection: the value returned and the
\* number of get_db_connection calls it made
Outcome(result, conn) == [result |-> result, conn_calls |-> conn, open_conns |-> 0]

Caught_lets_it_through(r) == r

\* except Exception as e: the exception becomes an internal_error result
Caught(r) == IF IsRaised(r) THEN ErrorResult("internal_error", r.raised) ELSE r

\* the exit of the context manager of get_db_connection (db.py, from its
\* contract): the connection is closed
connection_exit(open) == open - 1

WithConnection_leaks_on_raise(r) ==
    [result |-> Caught(r), conn_calls |-> 1,
     open_conns |-> IF IsRaised(r) THEN 1 ELSE connection_exit(1)]

\* with get_db_connection(db_path) as conn: the block is left through the
\* context manager's exit whether it returns or raises, then the except
\* clauses of the enclosing try apply
WithConnection(r) ==
    [result |-> Caught(r), conn_calls |-> 1, open_conns |-> connection_exit(1)]

get_messages_impl_connects_first(req) ==
    IF ~DbExists(req.db_path)
    THEN Outcome(ErrorResult("database_not_found",
                             "Database not found at " \o req.db_path), 1)
    ELSE IF ~Truthy(req.chat_id) /\ ~TruthyList(req.participants)
    THEN Outcome(ErrorResult("validation_error",
                             "Either chat_id or participants must be provided"), 1)
    ELSE WithConnection(get_messages_body(req))

get_messages_impl_generic_except(req) ==
    IF ~Truthy(req.chat_id) /\ ~TruthyList(req.participants)
    THEN Outcome(ErrorResult("validation_error",
                             "Either chat_id or participants must be provided"), 0)
    ELSE IF ~DbExists(req.db_path)
    THEN Outcome(ErrorResult("internal_error", "unable to open database file"), 1)
    ELSE WithConnection(get_messages_body(req))

\* get_messages_impl(chat_id, participants, ..., db_path)
get_messages_impl(req) ==
    IF ~Truthy(req.chat_id) /\ ~TruthyList(req.participants)
    THEN Outcome(ErrorResult("validation_error",
                             "Either chat_id or participants must be provided"), 0)
    ELSE IF ~DbExists(req.db_path)
    THEN Outcome(ErrorResult("database_not_found",
                             "Database not found at " \o req.db_path), 1)
    ELSE WithConnection(get_messages_body(req))

\* is from_person handed to the resolver's name search?
NameSearched(unanswered, from_person) ==
    /\ ~unanswered
    /\ Truthy(from_person)
    /\ Lower(from_person) # "me"
    /\ ~Truthy(NormalizeToE164(from_person))
    /\ PYOBJC_AVAILABLE

-----------------------------------------------------------------------------
(* tools/find_chat.py *)

NoBool == [given |-> FALSE, value |-> FALSE]

BoolOf(b) == [given |-> TRUE, value |-> b]

\* find_chats_by_handles(conn, handles) (queries.py, from its contract): the
\* chats whose participants include every given handle, in scan order
MembersOfChat(chat_id) ==
    IF chat_id \in DOMAIN chat_handle_join
    THEN {handle[chat_handle_join[chat_id][i]] : i \in 1..Len(chat_handle_join[chat_id])}
    ELSE {}

RECURSIVE find_chats_by_handles(_, _)
find_chats_by_handles(handles, n) ==
    IF n = 0 THEN <<>>
    ELSE find_chats_by_handles(handles, n - 1) \o
         (IF handles \subseteq MembersOfChat(chat[n].ROWID) THEN <<chat[n]>> ELSE <<>>)

\* the handles one entry of the participants argument stands for
LookupByName(p, lookup) ==
    {k \in DOMAIN lookup : Contains(Lower(lookup[k]), Lower(p))}

HandleOrName(p, normalized) ==
    IF Truthy(normalized) THEN {normalized}
    ELSE IF PYOBJC_AVAILABLE THEN LookupByName(p, build_contact_lookup)
    ELSE {}

HandlesOf(p) ==
    IF StartsWith(p, "+") THEN {p} ELSE HandleOrName(p, NormalizeToE164(p))

\* the newest plain message of a chat, as _build_chat_info renders it
LastSenderName(sender_handle, resolved) ==
    IF resolved # None THEN resolved
    ELSE IF Truthy(sender_handle) THEN FormatPhoneDisplay(sender_handle)
    ELSE "unknown"

LastSender(last_msg, sender_handle) ==
    IF last_msg.is_from_me # 0 THEN "me"
    ELSE LastSenderName(sender_handle,
                        IF PYOBJC_AVAILABLE THEN ContactResolver_resolve(sender_handle)
                        ELSE sender_handle)

LastOf(rows) ==
    IF rows = <<>> THEN [k \in {} |-> None]
    ELSE ("last" :> [from |-> LastSender(rows[1], HandleIdOf(rows[1].handle_id)),
                     text |-> IF rows[1].text = None THEN ""
                              ELSE SubSeq(rows[1].text, 1,
                                          IF Len(rows[1].text) < 50
                                          THEN Len(rows[1].text) ELSE 50)])

LastInfo(chat_id) ==
    LastOf(SortNewestFirst({m \in MessageRows :
                m.chat_id = chat_id /\ m.associated_message_type = 0}))

\* _build_chat_info(conn, chat_row, resolver), with the match label
ChatInfo_group_from_three(chat_row, participants, match) ==
    [id |-> "chat" \o ToString(chat_row.ROWID),
     name |-> IF Truthy(chat_row.display_name) THEN chat_row.display_name
              ELSE GenerateDisplayName(participants),
     participants |-> participants,
     match |-> match]
    @@ (IF Len(participants) > 2 THEN ("group" :> TRUE) ELSE [k \in {} |-> None])
    @@ LastInfo(chat_row.ROWID)

ChatInfo(chat_row, participants, match) ==
    [id |-> "chat" \o ToString(chat_row.ROWID),
     name |-> IF Truthy(chat_row.display_name) THEN chat_row.display_name
              ELSE GenerateDisplayName(participants),
     participants |-> participants,
     match |-> match]
    @@ (IF Len(participants) > 1 THEN ("group" :> TRUE) ELSE [k \in {} |-> None])
    @@ LastInfo(chat_row.ROWID)

ChatParticipants(participant_rows) ==
    [i \in 1..Len(participant_rows) |->
        [handle |-> participant_rows[i].handle,
         name |-> IF Truthy(participant_rows[i].name)
                  THEN participant_rows[i].name
                  ELSE FormatPhoneDisplay(participant_rows[i].handle)]]

build_chat_info(chat_row, match) ==
    ChatInfo(chat_row, ChatParticipants(get_chat_participants(chat_row.ROWID)), match)

\* strategy 1: the chats that hold all the handles of the participants
RECURSIVE AllHandles(_, _)
AllHandles(ps, n) == IF n = 0 THEN {} ELSE AllHandles(ps, n - 1) \cup HandlesOf(ps[n])

ChatInfos(rows, match) == [i \in 1..Len(rows) |-> build_chat_info(rows[i], match)]

ChatsByHandles(handles) ==
    IF handles # {}
    THEN ChatInfos(find_chats_by_handles(handles, Len(chat)), "participants")
    ELSE <<>>

ByParticipants(participants) ==
    IF TruthyList(participants)
    THEN ChatsByHandles(AllHandles(participants.items, Len(participants.items)))
    ELSE <<>>

\* strategy 2: display_name LIKE %name% LIMIT limit, in scan order
RECURSIVE ChatsNamed(_, _)
ChatsNamed(name, n) ==
    IF n = 0 THEN <<>>
    ELSE ChatsNamed(name, n - 1) \o
         (IF Like(chat[n].display_name, name) THEN <<chat[n]>> ELSE <<>>)

ByName(name, limit) == ChatInfos(SqlLimit(ChatsNamed(name, Len(chat)), limit), "name")

\* strategy 3: the distinct chats with a message whose text is LIKE
\* %contains_recent%, by the date of that message, newest first, LIMIT limit
AppendNew(before, c) ==
    IF \E i \in 1..Len(before) : before[i] = c THEN before ELSE Append(before, c)

RECURSIVE DistinctChats(_, _)
DistinctChats(rows, n) ==
    IF n = 0 THEN <<>>
    ELSE AppendNew(DistinctChats(rows, n - 1), rows[n].chat_id)

ChatsOf(ids) ==
    [i \in 1..Len(ids) |->
        build_chat_info(CHOOSE c \in ChatRows : c.ROWID = ids[i], "content")]

DistinctChatsOf(hits, limit) == ChatsOf(SqlLimit(DistinctChats(hits, Len(hits)), limit))

ByContent(contains_recent, limit) ==
    DistinctChatsOf(SortNewestFirst({m \in MessageRows :
                        Like(m.text, contains_recent)
                        /\ \E c \in ChatRows : c.ROWID = m.chat_id}),
                    limit)

\* [r for r in results if r.get("group", False) == is_group]
RECURSIVE FilterGroup(_, _, _)
FilterGroup(results, n, is_group) ==
    IF n = 0 THEN <<>>
    ELSE FilterGroup(results, n - 1, is_group) \o
         (IF ("group" \in DOMAIN results[n]) = is_group THEN <<results[n]>> ELSE <<>>)

\* the loop that drops repeated ids and stops once limit chats are kept
RECURSIVE Deduplicate(_, _, _, _)
Deduplicate(results, i, unique_results, limit) ==
    IF i > Len(results) THEN unique_results
    ELSE IF \E j \in 1..Len(unique_results) : unique_results[j].id = results[i].id
    THEN Deduplicate(results, i + 1, unique_results, limit)
    ELSE IF Len(unique_results) + 1 >= limit
    THEN Append(unique_results, results[i])
    ELSE Deduplicate(results, i + 1, Append(unique_results, results[i]), limit)

\* find_chat_impl from the filtered results on
find_chat_respond(req, results) ==
    [chats |-> Deduplicate(results, 1, <<>>, req.limit),
     more |-> Len(results) > req.limit,
     cursor |-> None]

\* the is_group filter
find_chat_filter(req, results) ==
    IF req.is_group.given
    THEN find_chat_respond(req, FilterGroup(results, Len(results), req.is_group.value))
    ELSE find_chat_respond(req, results)

\* strategy 3 runs when the first two found nothing
find_chat_by_content(req, results) ==
    IF Truthy(req.contains_recent) /\ results = <<>>
    THEN find_chat_filter(req, ByContent(req.contains_recent, req.limit))
    ELSE find_chat_filter(req, results)

find_chat_by_name_runs_always(req, results) ==
    IF Truthy(req.name)
    THEN find_chat_by_content(req, results \o ByName(req.name, req.limit))
    ELSE find_chat_by_content(req, results)

\* strategy 2 runs when the first found nothing
find_chat_by_name(req, results) ==
    IF Truthy(req.name) /\ results = <<>>
    THEN find_chat_by_content(req, ByName(req.name, req.limit))
    ELSE find_chat_by_content(req, results)

\* find_chat_impl, from the open connection on
find_chat_body(req) == find_chat_by_name(req, ByParticipants(req.participants))

\* find_chat_impl(participants, name, contains_recent, is_group, limit, db_path)
find_chat_impl(req) ==
    IF ~(TruthyList(req.participants) \/ Truthy(req.name) \/ Truthy(req.contains_recent))
    THEN Outcome(ErrorResult("validation_error",
                    "At least one of participants, name, or contains_recent required"), 0)
    ELSE IF ~DbExists(req.db_path)
    THEN Outcome(ErrorResult("database_not_found",
                             "Database not found at " \o req.db_path), 1)
    ELSE WithConnection(find_chat_body(req))

-----------------------------------------------------------------------------
(* The calls the model makes *)

Limits == -1..MaxLimit

ChatTokens ==
    {"chat1", "chat2", "chat123", "chat456", "chat99", "chat", ";+;chat4",
     "iMessage", "SMS", "imessage;+;CHAT123"}

GetMessagesRequest(chat_id, participants, limit, from_person, contains, include_reactions, unanswered, db_path) ==
    [op |-> "get_messages", chat_id |-> chat_id, participants |-> participants,
     limit |-> limit, from_person |-> from_person, contains |-> contains,
     include_reactions |-> include_reactions, unanswered |-> unanswered,
     db_path |-> db_path]

GetMessagesRequests ==
    {GetMessagesRequest(t, NoList, 1, None, None, TRUE, FALSE, "chat.db") :
        t \in ChatTokens}
    \cup
    {GetMessagesRequest("chat1", NoList, l, None, c, r, u, "chat.db") :
        l \in Limits, c \in {None, "?"}, r \in BOOLEAN, u \in BOOLEAN}
    \cup
    {GetMessagesRequest(t, ps, MaxLimit, None, None, TRUE, u, db) :
        t \in {None, "", "chat1"},
        ps \in {NoList, ListOf(<<>>), ListOf(<<handle[1]>>)},
        u \in BOOLEAN, db \in DbPaths}
    \cup
    {GetMessagesRequest("chat1", NoList, MaxLimit, f, None, TRUE, u, "chat.db") :
        f \in {"me", "Me", handle[1], "Al"}, u \in BOOLEAN}

FindChatRequest(participants, name, contains_recent, is_group, limit, db_path) ==
    [op |-> "find_chat", participants |-> participants, name |-> name,
     contains_recent |-> contains_recent, is_group |-> is_group, limit |-> limit,
     db_path |-> db_path]

FindChatRequests ==
    {FindChatRequest(ps, n, c, NoBool, MaxLimit, db) :
        ps \in {NoList, ListOf(<<>>), ListOf(<<handle[1]>>), ListOf(<<"Al">>)},
        n \in {None, "", "Test"}, c \in {None, "", "Hello"}, db \in DbPaths}
    \cup
    {FindChatRequest(q[1], q[2], q[3], BoolOf(g), l, "chat.db") :
        q \in {<<ListOf(<<handle[1]>>), None, None>>, <<NoList, "Test", None>>,
               <<NoList, None, "Hello">>, <<NoList, None, "e">>},
        g \in BOOLEAN, l \in Limits}

-----------------------------------------------------------------------------
(* server.py: the tool entry points *)

GET_MESSAGES_MAX_LIMIT == 200

Min(a, b) == IF a <= b THEN a ELSE b

\* the limits a client passes to a tool
CallerLimits ==
    {-1, 1, MaxLimit, GET_MESSAGES_MAX_LIMIT, GET_MESSAGES_MAX_LIMIT + 1}

GetMessagesToolCall(chat_id, limit) ==
    [tool |-> "get_messages", chat_id |-> chat_id, limit |-> limit]

GetMessagesToolCalls ==
    {GetMessagesToolCall(t, l) : t \in {None, "chat1"}, l \in CallerLimits}

FindChatToolCall(name, contains_recent, limit) ==
    [tool |-> "find_chat", name |-> name, contains_recent |-> contains_recent,
     limit |-> limit]

FindChatToolCalls ==
    {FindChatToolCall(q[1], q[2], l) :
        q \in {<<"Test", None>>, <<None, "e">>}, l \in CallerLimits}

\* get_messages(...): the call get_messages_impl receives; unanswered and
\* db_path keep their defaults
server_get_messages(call) ==
    GetMessagesRequest(call.chat_id, NoList, Min(call.limit, GET_MESSAGES_MAX_LIMIT),
                       None, None, TRUE, FALSE, "chat.db")

\* find_chat(...): the call find_chat_impl receives
server_find_chat(call) ==
    FindChatRequest(NoList, call.name, call.contains_recent, NoBool, call.limit,
                    "chat.db")

-----------------------------------------------------------------------------
(* The state machine *)

Init ==
    /\ \E st \in Stores :
        /\ chat = st.chat
        /\ chat_handle_join = st.chat_handle_join
        /\ message = st.message
        /\ directory = st.directory
        /\ PYOBJC_AVAILABLE = st.pyobjc
    /\ request = NoRequest
    /\ response = NoResponse
    /\ conn_calls = 0
    /\ open_conns = 0
    /\ resolver_lookup = NoLookup
    /\ build_calls = 0
    /\ tool_call = NoToolCall

\* an implementation serves the call req that came through call
Serve(req, out, call) ==
    /\ request.op = "idle"
    /\ request' = req
    /\ \E o \in {out} :
        /\ response' = o.result
        /\ conn_calls' = o.conn_calls
        /\ open_conns' = open_conns + o.open_conns
    /\ tool_call' = call
    /\ UNCHANGED <<store_vars, resolver_lookup, build_calls>>

\* a client calls get_messages_impl
GetMessages(req) ==
    Serve(req, get_messages_impl(req), NoToolCall)

\* a client calls find_chat_impl
FindChat(req) ==
    Serve(req, find_chat_impl(req), NoToolCall)

\* a client calls the get_messages tool of the server
ToolGetMessages(call) ==
    Serve(server_get_messages(call), get_messages_impl(server_get_messages(call)), call)

\* a client calls the find_chat tool of the server
ToolFindChat(call) ==
    Serve(server_find_chat(call), find_chat_impl(server_find_chat(call)), call)

\* the result goes back to the caller and the tool is ready for the next call
Return ==
    /\ request.op # "idle"
    /\ request' = NoRequest
    /\ response' = NoResponse
    /\ conn_calls' = 0
    /\ tool_call' = NoToolCall
    /\ UNCHANGED <<store_vars, open_conns, resolver_lookup, build_calls>>

Next ==
    \/ \E req \in GetMessagesRequests : GetMessages(req)
    \/ \E req \in FindChatRequests : FindChat(req)
    \/ \E call \in GetMessagesToolCalls : ToolGetMessages(call)
    \/ \E call \in FindChatToolCalls : ToolFindChat(call)
    \/ Return

Spec == Init /\ [][Next]_vars

-----------------------------------------------------------------------------
(* contacts.py on its own: a process that makes ContactResolver objects and *)
(* calls initialize(), resolve() and resolve_handle()                       *)

MaxBuilds == 2

\* the keys a contact directory of this model may hold
LookupKeys ==
    {"+19175551234", "9175551234", "test@example.com", "Test@Example.com", "abc"}

\* the contact directories: each key, when present, names its own contact
Lookups == {[k \in K |-> "Name of " \o k] : K \in SUBSET LookupKeys}

\* the handles the resolver is asked about
ResolveHandles ==
    {None, "", "+19175551234", "9175551234", "(917) 555-1234", "Test@Example.com",
     "test@example.com", "ABC", "+1999"}

InitResolver ==
    /\ chat = <<>>
    /\ chat_handle_join = <<>>
    /\ message = <<>>
    /\ directory \in Lookups
    /\ PYOBJC_AVAILABLE \in BOOLEAN
    /\ request = NoRequest
    /\ response = NoResponse
    /\ conn_calls = 0
    /\ open_conns = 0
    /\ resolver_lookup = NoLookup
    /\ build_calls = 0
    /\ tool_call = NoToolCall

\* resolver = ContactResolver(), as each get_messages_impl and find_chat_impl
\* call does
NewResolver ==
    /\ request' = [op |-> "ContactResolver"]
    /\ response' = NoResponse
    /\ resolver_lookup' = NoLookup
    /\ UNCHANGED <<store_vars, conn_calls, open_conns, build_calls, tool_call>>

\* resolver.initialize()
Initialize ==
    /\ request' = [op |-> "initialize"]
    /\ IF ~PYOBJC_AVAILABLE
       THEN /\ response' = [value |-> FALSE]
            /\ UNCHANGED <<resolver_lookup, build_calls>>
       ELSE /\ build_calls < MaxBuilds
            /\ resolver_lookup' = build_contact_lookup
            /\ build_calls' = build_calls + 1
            /\ response' = [value |-> DOMAIN build_contact_lookup # {}]
    /\ UNCHANGED <<store_vars, conn_calls, open_conns, tool_call>>

\* resolver.resolve(handle)
Resolve(h) ==
    /\ request' = [op |-> "resolve", handle |-> h]
    /\ IF resolver_lookup # NoLookup
       THEN /\ response' = [value |-> resolve_handle(h, resolver_lookup)]
            /\ UNCHANGED <<resolver_lookup, build_calls>>
       ELSE IF ~PYOBJC_AVAILABLE
       THEN /\ response' = [value |-> None]
            /\ UNCHANGED <<resolver_lookup, build_calls>>
       ELSE /\ build_calls < MaxBuilds
            /\ resolver_lookup' = build_contact_lookup
            /\ build_calls' = build_calls + 1
            /\ response' = [value |-> resolve_handle(h, build_contact_lookup)]
    /\ UNCHANGED <<store_vars, conn_calls, open_conns, tool_call>>

\* resolve_handle(handle, lookup) on the directory's lookup
ResolveHandle(h) ==
    /\ request' = [op |-> "resolve_handle", handle |-> h]
    /\ response' = [value |-> resolve_handle(h, directory)]
    /\ UNCHANGED <<store_vars, conn_calls, open_conns, resolver_lookup, build_calls,
                   tool_call>>

NextResolver ==
    \/ NewResolver
    \/ Initialize
    \/ \E h \in ResolveHandles : Resolve(h)
    \/ \E h \in ResolveHandles : ResolveHandle(h)

SpecResolver == InitResolver /\ [][NextResolver]_vars

-----------------------------------------------------------------------------
(* Vocabulary of the properties *)

IsGetMessages == request.op = "get_messages"

IsFindChat == request.op = "find_chat"

IsError(kind) == "error" \in DOMAIN response /\ response.error = kind

GotMessages == IsGetMessages /\ "messages" \in DOMAIN response

ResponseMessages == {response.messages[i] : i \in 1..Len(response.messages)}

\* the chat a successful get_messages response is about
RequestChat == ResolveChatId(request.chat_id).id

\* the rows of the store that match the filters of the get_messages request
RequestMatches ==
    LET sender == ResolveSender(request.unanswered, request.from_person)
        rows == MatchingMessages(RequestChat, None, None, sender.from_handle,
                                 sender.from_me_only, request.contains)
    IN  IF request.unanswered
        THEN {m \in rows : IsUnanswered(RequestChat, MessageRow(m))}
        ELSE rows

\* the handles of the participants of a chat row
MembersOf(c) ==
    IF c.ROWID \in DOMAIN chat_handle_join
    THEN {handle[chat_handle_join[c.ROWID][i]] : i \in 1..Len(chat_handle_join[c.ROWID])}
    ELSE {}

\* the reaction rows of the store that point at a message of the response
ReactionRowsOn(msg) ==
    {m \in MessageRows : m.associated_message_type # 0
                         /\ "msg_" \o SubSeq(m.associated_message_guid, 4,
                                             Len(m.associated_message_guid)) = msg.id}

\* kinds of the reaction table: 2000..2005 are reactions, 3000..3005 their
\* removals, everything else is not a known kind
RemovedOrUnrecognized(code) == code \notin 2000..2005

\* the sender key of a "<emoji> <senderKey>" string
ReactionSenderKey(str) ==
    LET i == CHOOSE j \in 1..Len(str) :
                SubSeq(str, j, j) = " " /\ \A k \in 1..(j - 1) : SubSeq(str, k, k) # " "
    IN  SubSeq(str, i + 1, Len(str))

ReactionEmoji(str) ==
    LET i == CHOOSE j \in 1..Len(str) :
                SubSeq(str, j, j) = " " /\ \A k \in 1..(j - 1) : SubSeq(str, k, k) # " "
    IN  SubSeq(str, 1, i - 1)

-----------------------------------------------------------------------------
(* Properties *)

\* C1: a call without any of its required identifying filters (chat_id and
\* participants for get_messages; participants, name and contains_recent for
\* find_chat; each missing or empty) returns validation_error with a message
\* and makes no connection to the store.
C1_ValidationWithoutStoreRead ==
    /\ (IsGetMessages /\ ~Truthy(request.chat_id) /\ ~TruthyList(request.participants))
        => (IsError("validation_error") /\ Truthy(response.message) /\ conn_calls = 0)
    /\ (IsFindChat /\ ~TruthyList(request.participants) /\ ~Truthy(request.name)
                   /\ ~Truthy(request.contains_recent))
        => (IsError("validation_error") /\ Truthy(response.message) /\ conn_calls = 0)

C1_Witness ==
    /\ IsGetMessages
    /\ request.chat_id = ""
    /\ request.participants = ListOf(<<>>)
    /\ IsError("validation_error")
    /\ conn_calls = 0

\* C2 as stated: every call with a db_path that names a nonexistent file
\* yields database_not_found, whatever the other arguments are, also when
\* all identifying filters are missing.
C2_MissingStoreAlways ==
    ((IsGetMessages \/ IsFindChat) /\ ~DbExists(request.db_path))
        => IsError("database_not_found")

\* C2 amended: a call with a db_path that names a nonexistent file and with
\* at least one identifying filter present yields database_not_found; with
\* all identifying filters missing it yields validation_error.
C2_MissingStoreAfterValidation ==
    /\ (IsGetMessages /\ ~DbExists(request.db_path))
        => IF Truthy(request.chat_id) \/ TruthyList(request.participants)
           THEN IsError("database_not_found") /\ conn_calls = 1
           ELSE IsError("validation_error")
    /\ (IsFindChat /\ ~DbExists(request.db_path))
        => IF TruthyList(request.participants) \/ Truthy(request.name)
              \/ Truthy(request.contains_recent)
           THEN IsError("database_not_found") /\ conn_calls = 1
           ELSE IsError("validation_error")

C2_Witness ==
    /\ IsGetMessages
    /\ ~DbExists(request.db_path)
    /\ ~Truthy(request.chat_id)
    /\ TruthyList(request.participants)
    /\ request.unanswered
    /\ IsError("database_not_found")

\* C3: in a successful get_messages response with limit >= 0, more is true
\* exactly when the store holds more rows matching the filters of the request
\* than the response returns.
C3_MoreIffFurtherRows ==
    (GotMessages /\ request.limit >= 0)
        => (response.more <=> Cardinality(RequestMatches) > Len(response.messages))

\* C4: a chat_id that is "chat" + the row id of a chat, or a substring of a
\* chat's GUID, yields a successful response whose chat.id is "chat" + the
\* row id of a chat that the token names.
C4_CanonicalChatId ==
    LET named == {c \in ChatRows : request.chat_id = "chat" \o ToString(c.ROWID)
                                   \/ Contains(c.guid, request.chat_id)}
    IN  (IsGetMessages /\ Truthy(request.chat_id) /\ DbExists(request.db_path)
         /\ ~ResolveSender(request.unanswered, request.from_person).raised
         /\ named # {})
            => (GotMessages
                /\ response.chat.id \in {"chat" \o ToString(c.ROWID) : c \in named})

\* C5: a get_messages call with participants and no chat_id, when a chat
\* holds all the handles the participants stand for, returns the messages of
\* such a chat and not chat_not_found.
C5_ParticipantsFindChat ==
    LET handles == AllHandles(request.participants.items, Len(request.participants.items))
        holders == {c \in ChatRows : handles \subseteq MembersOf(c)}
    IN  (IsGetMessages /\ ~Truthy(request.chat_id) /\ TruthyList(request.participants)
         /\ DbExists(request.db_path) /\ handles # {} /\ holders # {})
            => (GotMessages
                /\ response.chat.id \in {"chat" \o ToString(c.ROWID) : c \in holders})

\* C6: every successful get_messages response has people["me"] = "Me",
\* whatever the names of the participants are.
C6_PeopleMe ==
    GotMessages => ("me" \in DOMAIN response.people /\ response.people["me"] = "Me")

C6_Witness ==
    /\ GotMessages
    /\ \E i \in 1..Len(chat_handle_join[RequestChat]) :
            ContactResolver_resolve(handle[chat_handle_join[RequestChat][i]]) = "Me Too"
    /\ response.people["me"] = "Me"
    /\ \E k \in DOMAIN response.people : response.people[k] = "Me Too"

\* C7: in a successful get_messages response the people map has one entry
\* for each participant of the chat plus "me": the keys of distinct handles
\* are distinct and none is overwritten.
C7_OneKeyPerParticipant ==
    GotMessages
        => Cardinality(DOMAIN response.people) = Len(chat_handle_join[RequestChat]) + 1

\* C8: every sender reference of a get_messages response is a key of its
\* people map: the "from" of each message and the sender key of each
\* reaction string.
C8_SenderReferencesAreKeys ==
    GotMessages
        => \A msg \in ResponseMessages :
            /\ ("from" \in DOMAIN msg => msg.from \in DOMAIN response.people)
            /\ ("reactions" \in DOMAIN msg =>
                    \A i \in 1..Len(msg.reactions) :
                        ReactionSenderKey(msg.reactions[i]) \in DOMAIN response.people)

\* C9: a reaction row of a removed or unrecognized kind is never rendered in
\* the reactions of a message: every rendered entry comes from a row of a
\* recognized kind, there are no more entries than such rows, and a message
\* whose reaction rows are all removed or unrecognized has no reactions field.
C9_NoRemovedReactions ==
    GotMessages
        => \A msg \in ResponseMessages :
            LET live == {r \in ReactionRowsOn(msg) :
                            ~RemovedOrUnrecognized(r.associated_message_type)}
            IN  /\ (live = {} => "reactions" \notin DOMAIN msg)
                /\ ("reactions" \in DOMAIN msg =>
                    /\ Len(msg.reactions) <= Cardinality(live)
                    /\ \A i \in 1..Len(msg.reactions) :
                        \E r \in live :
                            ReactionEmoji(msg.reactions[i])
                                = ReactionToEmoji(GetReactionType(r.associated_message_type)))

C9_Witness ==
    /\ GotMessages
    /\ request.include_reactions
    /\ \E msg \in ResponseMessages :
        /\ Cardinality(ReactionRowsOn(msg)) = 2
        /\ \A r \in ReactionRowsOn(msg) : RemovedOrUnrecognized(r.associated_message_type)
        /\ "reactions" \notin DOMAIN msg

-----------------------------------------------------------------------------
(* Properties of the entry points, the error paths and the resolver *)

ErrorKinds == {"validation_error", "chat_not_found", "database_not_found", "internal_error"}

FoundChats == IsFindChat /\ "chats" \in DOMAIN response

\* C11: each tool entry point hands its implementation a limit clamped to
\* the maximum of the operation: get_messages at most 200, and a
\* get_messages response holds at most 200 messages; find_chat clamps to a
\* maximum of its own, so a limit larger than every maximum the server
\* documents reaches find_chat_impl reduced.
C11_LimitsClamped ==
    /\ tool_call.tool = "get_messages"
        => /\ request.limit <= GET_MESSAGES_MAX_LIMIT
           /\ GotMessages => Len(response.messages) <= GET_MESSAGES_MAX_LIMIT
    /\ (tool_call.tool = "find_chat" /\ tool_call.limit > GET_MESSAGES_MAX_LIMIT)
        => request.limit < tool_call.limit

\* C12: every call returns an error result {error, message} of one of the
\* four kinds, or a success result with a boolean more and a null cursor
\* (with chat, people and messages for get_messages, chats for find_chat);
\* an exception raised inside the call is never what the caller gets.
C12_ResultShapes ==
    request.op # "idle"
        => \/ /\ DOMAIN response = {"error", "message"}
              /\ response.error \in ErrorKinds
              /\ Truthy(response.message)
           \/ /\ IsGetMessages
              /\ DOMAIN response = {"chat", "people", "messages", "more", "cursor"}
              /\ response.more \in BOOLEAN
              /\ response.cursor = None
           \/ /\ IsFindChat
              /\ DOMAIN response = {"chats", "more", "cursor"}
              /\ response.more \in BOOLEAN
              /\ response.cursor = None

C12_Witness ==
    /\ IsGetMessages
    /\ NameSearched(request.unanswered, request.from_person)
    /\ IsError("internal_error")
    /\ response.message = "'ContactResolver' object has no attribute 'search_by_name'"

\* C13: after a call has returned, whatever its result (success,
\* chat_not_found, database_not_found or internal_error), no connection it
\* opened is still open.
C13_ConnectionsReleased == open_conns = 0

C13_Witness ==
    /\ conn_calls = 1
    /\ open_conns = 0
    /\ IsError("internal_error")
    /\ DbExists(request.db_path)

\* C16: a get_messages call whose from_person is neither "me" nor
\* phone-like, with the contact directory available and the chat found,
\* returns a success response whose messages all come from a handle whose
\* contact name matches from_person.
C16_NameSearchFilters ==
    (/\ IsGetMessages
     /\ NameSearched(request.unanswered, request.from_person)
     /\ DbExists(request.db_path)
     /\ ResolveChatId(request.chat_id).found
     /\ \E c \in ChatRows : c.ROWID = RequestChat)
        => /\ GotMessages
           /\ \A msg \in ResponseMessages :
                \E m \in MessageRows :
                    /\ msg.id = "msg_" \o ToString(m.ROWID)
                    /\ m.is_from_me = 0
                    /\ HandleIdOf(m.handle_id)
                        \in LookupByName(request.from_person, build_contact_lookup)

\* C14: build_contact_lookup runs at most once in the life of a process,
\* over any sequence of ContactResolver objects made (one per get_messages
\* or find_chat call) and of initialize() and resolve() calls on them.
C14_LookupBuiltOnce == build_calls <= 1

\* C17: resolve_handle(handle, lookup) returns the name under the exact
\* handle, else the name under its normalized form, else, for a handle
\* with "@" only, the name under the lower-cased handle, else none; and
\* ContactResolver.resolve returns none for an empty handle and whenever
\* the directory is unavailable.
C17_ResolveOrder ==
    /\ request.op = "resolve_handle"
        => IF ~Truthy(request.handle) THEN response.value = None
           ELSE IF request.handle \in DOMAIN directory
           THEN response.value = directory[request.handle]
           ELSE IF Truthy(NormalizeToE164(request.handle))
                   /\ NormalizeToE164(request.handle) \in DOMAIN directory
           THEN response.value = directory[NormalizeToE164(request.handle)]
           ELSE IF Contains(request.handle, "@")
                   /\ Lower(request.handle) \in DOMAIN directory
           THEN response.value = directory[Lower(request.handle)]
           ELSE response.value = None
    /\ (request.op = "resolve" /\ (~Truthy(request.handle) \/ ~PYOBJC_AVAILABLE))
        => response.value = None

C17_Witness ==
    /\ request.op = "resolve_handle"
    /\ request.handle = "(917) 555-1234"
    /\ "9175551234" \in DOMAIN directory
    /\ response.value = "Name of +19175551234"

-----------------------------------------------------------------------------
(* Properties of find_chat and of the unanswered filter *)

\* the chat row a find_chat result is about
ChatOf(info) == CHOOSE c \in ChatRows : "chat" \o ToString(c.ROWID) = info.id

\* the chats of the store that hold every handle the participants stand for
ChatsWithParticipants ==
    IF TruthyList(request.participants)
       /\ AllHandles(request.participants.items, Len(request.participants.items)) # {}
    THEN {c \in ChatRows :
            AllHandles(request.participants.items, Len(request.participants.items))
                \subseteq MembersOf(c)}
    ELSE {}

ChatsWithName ==
    IF Truthy(request.name)
    THEN {c \in ChatRows : Like(c.display_name, request.name)}
    ELSE {}

ChatsWithContent ==
    IF Truthy(request.contains_recent)
    THEN {c \in ChatRows :
            \E m \in MessageRows :
                m.chat_id = c.ROWID /\ Like(m.text, request.contains_recent)}
    ELSE {}

\* the distinct chats that match a find_chat request: those of the first
\* strategy that matches any, narrowed by is_group
FindChatMatches ==
    LET matched == IF ChatsWithParticipants # {} THEN ChatsWithParticipants
                   ELSE IF ChatsWithName # {} THEN ChatsWithName
                   ELSE ChatsWithContent
    IN  IF request.is_group.given
        THEN {c \in matched : (Cardinality(MembersOf(c)) > 1) = request.is_group.value}
        ELSE matched

\* C18: in a successful find_chat response (limit at least 1) more is true
\* exactly when more distinct chats match the request than the response
\* returns, for each strategy and with or without is_group.
C18_FindChatMore ==
    (FoundChats /\ request.limit >= 1)
        => (response.more <=> Cardinality(FindChatMatches) > Len(response.chats))

\* C19: a chat returned by find_chat carries "group": true exactly when it
\* has more than one distinct participant handle; with is_group given,
\* every returned chat is a group (true) or none is (false).
C19_GroupFlag ==
    FoundChats
        => \A i \in 1..Len(response.chats) :
            /\ ("group" \in DOMAIN response.chats[i])
                    <=> Cardinality(MembersOf(ChatOf(response.chats[i]))) > 1
            /\ "group" \in DOMAIN response.chats[i] => response.chats[i].group = TRUE
            /\ request.is_group.given
                    => ("group" \in DOMAIN response.chats[i]) = request.is_group.value

C19_Witness ==
    /\ FoundChats
    /\ request.is_group = BoolOf(TRUE)
    /\ Len(response.chats) > 0
    /\ \E c \in ChatRows : Cardinality(MembersOf(c)) = 1
    /\ \A i \in 1..Len(response.chats) :
            Cardinality(MembersOf(ChatOf(response.chats[i]))) = 2

\* the first n elements of a sequence, none when n is not positive
Take(seq, n) == IF n <= 0 THEN <<>> ELSE IF n >= Len(seq) THEN seq ELSE SubSeq(seq, 1, n)

RECURSIVE Qualifying(_, _)
Qualifying(rows, n) ==
    IF n = 0 THEN <<>>
    ELSE Qualifying(rows, n - 1) \o
         (IF looks_like_question(GetMessageText(rows[n].text, None))
             /\ ~has_reply_within_24h(RequestChat, rows[n].date)
          THEN <<rows[n]>> ELSE <<>>)

\* C20: with unanswered=true the candidates are the 3 * limit most recent
\* rows of the local user that pass the other filters; the response holds,
\* in candidate order, the first limit candidates that look like a question
\* and have no reply within 24 hours; every returned message is of the
\* local user and no more than limit are returned.
C20_UnansweredCandidates ==
    (GotMessages /\ request.unanswered)
        => LET candidates == Take(SortNewestFirst(
                                    MatchingMessages(RequestChat, None, None, None, TRUE,
                                                     request.contains)),
                                  3 * request.limit)
               expected == Take(Qualifying(candidates, Len(candidates)), request.limit)
           IN  /\ Len(response.messages) <= request.limit
               /\ Len(response.messages) = Len(expected)
               /\ \A i \in 1..Len(response.messages) :
                    /\ response.messages[i].id = "msg_" \o ToString(expected[i].ROWID)
                    /\ response.messages[i].from = "me"

-----------------------------------------------------------------------------
(* Properties of the sender filter and of the find_chat strategies *)

\* the sender filters get_messages hands to the message query
RequestSender == ResolveSender(request.unanswered, request.from_person)

\* C21: the sender filters of a get_messages call are never both set:
\* "authored by me" excludes "authored by a handle"; unanswered=true selects
\* "authored by me" and drops from_person (every message returned is of the
\* local user); from_person "me" in any letter case selects "authored by me".
C21_SenderFiltersExclusive ==
    IsGetMessages
        => /\ ~(RequestSender.from_me_only /\ Truthy(RequestSender.from_handle))
           /\ request.unanswered
                => /\ RequestSender.from_me_only
                   /\ RequestSender.from_handle = None
                   /\ ~RequestSender.raised
                   /\ GotMessages
                        => \A i \in 1..Len(response.messages) :
                                response.messages[i].from = "me"
           /\ (Truthy(request.from_person) /\ Lower(request.from_person) = "me")
                => /\ RequestSender.from_me_only
                   /\ RequestSender.from_handle = None

C21_Witness ==
    /\ GotMessages
    /\ request.unanswered
    /\ request.from_person = handle[1]
    /\ Len(response.messages) > 0
    /\ \E m \in MessageRows :
            m.chat_id = RequestChat /\ m.is_from_me = 0 /\ m.handle_id = 1

\* C22: the chats of one find_chat response all carry the same match
\* label; when the participants search finds a chat every label is
\* "participants", a "name" label means the participants search found
\* none, and a "content" label means neither earlier strategy found any.
C22_StrategyPrecedence ==
    FoundChats
        => \A i \in 1..Len(response.chats) :
            /\ \A j \in 1..Len(response.chats) :
                    response.chats[i].match = response.chats[j].match
            /\ response.chats[i].match \in {"participants", "name", "content"}
            /\ ChatsWithParticipants # {} => response.chats[i].match = "participants"
            /\ response.chats[i].match = "name" => ChatsWithParticipants = {}
            /\ response.chats[i].match = "content"
                    => ChatsWithParticipants = {} /\ ChatsWithName = {}

C22_Witness ==
    /\ FoundChats
    /\ ChatsWithParticipants # {}
    /\ ChatsWithName # {}
    /\ ChatsWithContent # {}
    /\ Len(response.chats) > 0
    /\ \A i \in 1..Len(response.chats) : response.chats[i].match = "participants"

\* C23: for a limit of at least 0, a successful find_chat response holds
\* at most limit chats, and no two of them have the same id.
C23_AtMostLimitDistinct ==
    (FoundChats /\ request.limit >= 0)
        => /\ Len(response.chats) <= request.limit
           /\ \A i, j \in 1..Len(response.chats) :
                response.chats[i].id = response.chats[j].id => i = j

\* C24: a get_messages call whose from_person is not "me" and has no
\* normalized form, with the contact directory unavailable, returns what
\* the same call without from_person returns.
C24_UnresolvedSenderNoFilter ==
    (/\ IsGetMessages
     /\ Truthy(request.from_person)
     /\ Lower(request.from_person) # "me"
     /\ ~Truthy(NormalizeToE164(request.from_person))
     /\ ~PYOBJC_AVAILABLE)
        => response = get_messages_impl([request EXCEPT !.from_person = None]).result

C24_Witness ==
    /\ GotMessages
    /\ request.from_person = "Al"
    /\ ~request.unanswered
    /\ ~PYOBJC_AVAILABLE
    /\ \E i \in 1..Len(response.messages) : response.messages[i].from = "me"
    /\ \E i \in 1..Len(response.messages) : response.messages[i].from # "me"

====
